---- MODULE Spec2Model ----
(***************************************************************************)
(* Task management system: the dependency graph engine of                  *)
(* backend/tasks (models.py, views.py).                                    *)
(*                                                                         *)
(* State: the Task table (ids and status) and the TaskDependency table     *)
(* (rows (task, depends_on)).  Operations: the `dependencies` action of    *)
(* TaskViewSet (propose_edge), the CRUD endpoints of TaskDependencyViewSet,*)
(* task deletion of TaskViewSet, and the helper auto_update_task_status    *)
(* (derive_status).                                                        *)
(***************************************************************************)
EXTENDS Integers, Sequences, FiniteSets, Bags, TLC

(***************************************************************************)
(* Bounds of the model.                                                    *)
(***************************************************************************)
NumTasks == 3
\* most rows the TaskDependency table holds: when only propose_edge runs, and
\* when every endpoint runs
MaxRows == 3
MaxStore == 2
NumProcs == 2

Tasks == 1..NumTasks
\* ids a request may name: every task ever created and one id that never existed
Ids == 1..NumTasks + 1
Procs == 1..NumProcs
\* request.data.get("depends_on_id") is None when the key is missing
None == 0

STATUS_PENDING == "pending"
STATUS_IN_PROGRESS == "in_progress"
STATUS_COMPLETED == "completed"
STATUS_BLOCKED == "blocked"
STATUS_CHOICES == {STATUS_PENDING, STATUS_IN_PROGRESS, STATUS_COMPLETED, STATUS_BLOCKED}

HTTP_200_OK == 200
HTTP_201_CREATED == 201
HTTP_204_NO_CONTENT == 204
HTTP_400_BAD_REQUEST == 400
HTTP_404_NOT_FOUND == 404

VARIABLES
    tasks,    \* ids of the rows of the Task table
    status,   \* status[t]: Task.status of task t
    rows,     \* committed TaskDependency table: a bag of <<task_id, depends_on_id>>
    last,     \* the last request served and its response (history)
    txn       \* txn[p]: the open `dependencies` request of worker p

vars == <<tasks, status, rows, last, txn>>

(***************************************************************************)
(* The TaskDependency table.                                               *)
(***************************************************************************)
Edges(table) == BagToSet(table)

Row(a, b) == SetToBag({<<a, b>>})

Exists(table, a, b) == BagIn(<<a, b>>, table)

RECURSIVE Orders(_)
Orders(S) ==
    IF S = {} THEN {<<>>}
    ELSE UNION {{<<x[1]>> \o s : s \in Orders(S \ {x})} : x \in S}

(***************************************************************************)
(* _build_graph and detect_cycle                                           *)
(***************************************************************************)
\* the rows of task n, one element <<depends_on_id, i>> per stored row
RowsOf(table, n) ==
    UNION {{<<e[2], i>> : i \in 1..CopiesIn(e, table)} : e \in {d \in BagToSet(table) : d[1] = n}}

\* TaskDependency.objects.all() carries no order_by, the rows come back in
\* whatever order the database picks: the loop appends the depends_on ids of
\* each task to its list in any order.  The set of the graphs it can build.
RECURSIVE Lists(_, _)
Lists(table, keys) ==
    IF keys = {} THEN {<<>>}
    ELSE LET n == CHOOSE k \in keys : TRUE
         IN {(n :> deps) @@ graph :
                deps \in Orders(RowsOf(table, n)), graph \in Lists(table, keys \ {n})}

_build_graph(table) == Lists(table, {e[1] : e \in BagToSet(table)})

GraphGet(graph, node) == IF node \in DOMAIN graph THEN graph[node] ELSE <<>>

\* visited.add(node); stack.add(node); path.append(node).  `calls` counts the
\* calls of dfs.
enter(st, node) ==
    [visited |-> st.visited \cup {node},
     stack |-> st.stack \cup {node},
     path |-> Append(st.path, node),
     ret |-> FALSE,
     calls |-> st.calls + 1]

\* a search that takes every visited neighbor for one on the stack
on_stack_visited(st, neighbor) == neighbor \in st.visited

\* elif neighbor in stack
on_stack(st, neighbor) == neighbor \in st.stack

\* a search that reports the cycle without appending the repeated node
close_loop_no_append(st, neighbor) == [st EXCEPT !.ret = TRUE]

\* path.append(neighbor); return True
close_loop(st, neighbor) == [st EXCEPT !.path = Append(@, neighbor), !.ret = TRUE]

\* a search that leaves the node on path when it returns
backtrack_keep_path(st, node) == [st EXCEPT !.stack = @ \ {node}, !.ret = FALSE]

\* a search that forgets a node it has finished
backtrack_unvisit(st, node) ==
    [st EXCEPT !.stack = @ \ {node},
               !.visited = @ \ {node},
               !.path = SubSeq(@, 1, Len(@) - 1),
               !.ret = FALSE]

\* stack.remove(node); path.pop(); return False
backtrack(st, node) ==
    [st EXCEPT !.stack = @ \ {node},
               !.path = SubSeq(@, 1, Len(@) - 1),
               !.ret = FALSE]

RECURSIVE dfs(_, _, _)
RECURSIVE dfs_loop(_, _, _, _)
dfs(graph, node, st) == dfs_loop(graph, node, 1, enter(st, node))

\* the for loop of dfs, at the i-th neighbor of node
dfs_loop(graph, node, i, st) ==
    LET nbrs == GraphGet(graph, node) IN
    IF i > Len(nbrs)
    THEN backtrack(st, node)
    ELSE LET neighbor == nbrs[i] IN
         IF neighbor \notin st.visited
         THEN LET r == dfs(graph, neighbor, st) IN
              IF r.ret THEN r ELSE dfs_loop(graph, node, i + 1, r)
         ELSE IF on_stack(st, neighbor)
              THEN close_loop(st, neighbor)
              ELSE dfs_loop(graph, node, i + 1, st)

\* has_cycle = dfs(start_task_id), with the sets and the path it leaves
search(graph, start_task_id) ==
    dfs(graph, start_task_id,
        [visited |-> {}, stack |-> {}, path |-> <<>>, ret |-> FALSE, calls |-> 0])

detect_cycle(graph, start_task_id) ==
    LET r == search(graph, start_task_id)
    IN [is_circular |-> r.ret, path |-> IF r.ret THEN r.path ELSE <<>>]

(***************************************************************************)
(* Responses.  `staged` tells whether the request executed an INSERT into  *)
(* TaskDependency (also one that was rolled back afterwards); `pre` is the *)
(* committed table when a `dependencies` request arrived.                  *)
(***************************************************************************)
Response(op, pk, arg, code, error, path, staged, pre) ==
    [op |-> op, pk |-> pk, arg |-> arg, code |-> code, error |-> error,
     path |-> path, staged |-> staged, pre |-> pre]

NoRequest == Response("none", None, <<>>, HTTP_200_OK, "", <<>>, FALSE, EmptyBag)

\* a worker outside a request
NoTxn == [pc |-> "idle", pk |-> None, depends_on_id |-> None, created |-> FALSE,
          is_circular |-> FALSE, path |-> <<>>, code |-> HTTP_200_OK]

\* get_or_create(task=task, depends_on=depends_on): the row is inserted only
\* when no such row is stored
\* an insert that does not look for the row first
create(table, a, b) == table (+) Row(a, b)

get_or_create(table, a, b) ==
    IF Exists(table, a, b) THEN table ELSE table (+) Row(a, b)

\* transaction.set_rollback(True): every write of the atomic block is undone,
\* the table is again the one the block started from
\* a rejection that commits the block, and one that deletes the row (a, b)
\* instead of undoing the block's own insert
no_rollback(before, staged, a, b) == staged

remove_edge(before, staged, a, b) == staged (-) Row(a, b)

set_rollback(before, staged, a, b) == before

\* a view without the self-dependency check
is_self_never(depends_on_id, task_id) == FALSE

\* int(depends_on_id) == task.id
is_self(depends_on_id, task_id) == depends_on_id = task_id

(***************************************************************************)
(* TaskViewSet.dependencies: POST /api/tasks/{pk}/dependencies/            *)
(***************************************************************************)
Dependencies(pk, depends_on_id) ==
    /\ UNCHANGED <<tasks, status, txn>>
    /\ IF pk \notin tasks
       THEN \* self.get_object() raises Http404
            /\ last' = Response("dependencies", pk, <<depends_on_id>>, HTTP_404_NOT_FOUND,
                                "Not found", <<>>, FALSE, rows)
            /\ UNCHANGED rows
       ELSE IF depends_on_id = None
       THEN /\ last' = Response("dependencies", pk, <<depends_on_id>>, HTTP_400_BAD_REQUEST,
                                "depends_on_id is required", <<>>, FALSE, rows)
            /\ UNCHANGED rows
       ELSE IF is_self(depends_on_id, pk)
       THEN /\ last' = Response("dependencies", pk, <<depends_on_id>>, HTTP_400_BAD_REQUEST,
                                "Task cannot depend on itself", <<>>, FALSE, rows)
            /\ UNCHANGED rows
       ELSE IF depends_on_id \notin tasks
       THEN /\ last' = Response("dependencies", pk, <<depends_on_id>>, HTTP_404_NOT_FOUND,
                                "depends_on task not found", <<>>, FALSE, rows)
            /\ UNCHANGED rows
       ELSE LET staged == get_or_create(rows, pk, depends_on_id)
                created == staged # rows
            IN \E found \in {detect_cycle(graph, pk) : graph \in _build_graph(staged)} :
                  IF found.is_circular
                  THEN /\ rows' = set_rollback(rows, staged, pk, depends_on_id)
                       /\ last' = Response("dependencies", pk, <<depends_on_id>>,
                                           HTTP_400_BAD_REQUEST,
                                           "Circular dependency detected",
                                           found.path, created, rows)
                  ELSE /\ rows' = staged
                       /\ last' = Response("dependencies", pk, <<depends_on_id>>,
                                           HTTP_201_CREATED, "", <<>>, created, rows)

\* detect_cycle(start_task_id) on the committed table.  `arg` of the response
\* holds is_circular, the number of calls of dfs and the visited set.
DetectCycle(start_task_id) ==
    /\ UNCHANGED <<tasks, status, rows, txn>>
    /\ \E graph \in _build_graph(rows) :
          LET r == search(graph, start_task_id)
              found == detect_cycle(graph, start_task_id)
          IN last' = Response("detect_cycle", start_task_id,
                              <<found.is_circular, r.calls, r.visited>>,
                              HTTP_200_OK, "", found.path, FALSE, rows)

(***************************************************************************)
(* TaskDependencyViewSet (ModelViewSet over TaskDependency): create,       *)
(* update and destroy of dependency rows.  The serializer validates that   *)
(* both tasks exist and that (task, depends_on) is unique; nothing else.   *)
(***************************************************************************)
\* TaskDependencySerializer.is_valid for the pair (a, b); `others` is the table
\* without the row being updated
is_valid(others, a, b) ==
    /\ a \in tasks
    /\ b \in tasks
    /\ ~Exists(others, a, b)

DependencyCreate(a, b) ==
    /\ UNCHANGED <<tasks, status, txn>>
    /\ IF is_valid(rows, a, b)
       THEN /\ rows' = rows (+) Row(a, b)
            /\ last' = Response("create", None, <<a, b>>, HTTP_201_CREATED, "", <<>>,
                                TRUE, EmptyBag)
       ELSE /\ UNCHANGED rows
            /\ last' = Response("create", None, <<a, b>>, HTTP_400_BAD_REQUEST,
                                "invalid", <<>>, FALSE, EmptyBag)

\* (a0, b0) is the row the request's pk names
DependencyUpdate(a0, b0, a, b) ==
    /\ UNCHANGED <<tasks, status, txn>>
    /\ Exists(rows, a0, b0)
    /\ IF is_valid(rows (-) Row(a0, b0), a, b)
       THEN /\ rows' = (rows (-) Row(a0, b0)) (+) Row(a, b)
            /\ last' = Response("update", None, <<a0, b0, a, b>>, HTTP_200_OK, "", <<>>,
                                FALSE, EmptyBag)
       ELSE /\ UNCHANGED rows
            /\ last' = Response("update", None, <<a0, b0, a, b>>, HTTP_400_BAD_REQUEST,
                                "invalid", <<>>, FALSE, EmptyBag)

DependencyDestroy(a, b) ==
    /\ UNCHANGED <<tasks, status, txn>>
    /\ IF ~Exists(rows, a, b)
       THEN /\ UNCHANGED rows
            /\ last' = Response("destroy", None, <<a, b>>, HTTP_404_NOT_FOUND,
                                "Not found", <<>>, FALSE, EmptyBag)
       ELSE /\ rows' = rows (-) Row(a, b)
            /\ last' = Response("destroy", None, <<a, b>>, HTTP_204_NO_CONTENT, "", <<>>,
                                FALSE, EmptyBag)

(***************************************************************************)
(* TaskViewSet destroy: both foreign keys of TaskDependency are            *)
(* on_delete=CASCADE.                                                      *)
(***************************************************************************)
\* a delete that follows only the foreign key `task`
cascade_task_only(table, t) ==
    LET gone == {e \in BagToSet(table) : e[1] = t}
    IN [e \in BagToSet(table) \ gone |-> table[e]]

Cascade(table, t) ==
    LET gone == {e \in BagToSet(table) : e[1] = t \/ e[2] = t}
    IN [e \in BagToSet(table) \ gone |-> table[e]]

\* `arg` of the response holds the number of rows the delete took along
TaskDestroy(t) ==
    /\ UNCHANGED <<status, txn>>
    /\ IF t \notin tasks
       THEN /\ UNCHANGED <<tasks, rows>>
            /\ last' = Response("task_destroy", t, <<>>, HTTP_404_NOT_FOUND, "Not found",
                                <<>>, FALSE, EmptyBag)
       ELSE /\ tasks' = tasks \ {t}
            /\ rows' = Cascade(rows, t)
            /\ last' = Response("task_destroy", t,
                                <<BagCardinality(rows) - BagCardinality(Cascade(rows, t))>>,
                                HTTP_204_NO_CONTENT, "", <<>>, FALSE, EmptyBag)

(***************************************************************************)
(* auto_update_task_status (derive_status) and the status field            *)
(***************************************************************************)
\* deps.filter(status__in=among).count(), deps being
\* Task.objects.filter(dependents__task=task): one result per stored row
RECURSIVE Count(_, _, _, _)
Count(table, st, task, among) ==
    LET mine == {e \in BagToSet(table) : e[1] = task} IN
    IF mine = {} THEN 0
    ELSE LET e == CHOOSE d \in mine : TRUE
             rest == [d \in BagToSet(table) \ {e} |-> table[d]]
         IN (IF st[e[2]] \in among THEN table[e] ELSE 0) + Count(rest, st, task, among)

\* derivations that infer Completed, and that test Pending before Blocked
derive_completed(table, st, task) ==
    IF Count(table, st, task, STATUS_CHOICES) = 0 THEN st[task]
    ELSE IF Count(table, st, task, {STATUS_BLOCKED}) > 0 THEN STATUS_BLOCKED
    ELSE IF Count(table, st, task, {STATUS_PENDING, STATUS_IN_PROGRESS}) > 0 THEN STATUS_PENDING
    ELSE IF Count(table, st, task, {STATUS_COMPLETED}) = Count(table, st, task, STATUS_CHOICES)
    THEN STATUS_COMPLETED
    ELSE st[task]

derive_pending_first(table, st, task) ==
    IF Count(table, st, task, STATUS_CHOICES) = 0 THEN st[task]
    ELSE IF Count(table, st, task, {STATUS_PENDING, STATUS_IN_PROGRESS}) > 0 THEN STATUS_PENDING
    ELSE IF Count(table, st, task, {STATUS_BLOCKED}) > 0 THEN STATUS_BLOCKED
    ELSE IF Count(table, st, task, {STATUS_COMPLETED}) = Count(table, st, task, STATUS_CHOICES)
    THEN STATUS_IN_PROGRESS
    ELSE st[task]

\* the status of task after auto_update_task_status(task)
derive(table, st, task) ==
    IF Count(table, st, task, STATUS_CHOICES) = 0 THEN st[task]
    ELSE IF Count(table, st, task, {STATUS_BLOCKED}) > 0 THEN STATUS_BLOCKED
    ELSE IF Count(table, st, task, {STATUS_PENDING, STATUS_IN_PROGRESS}) > 0 THEN STATUS_PENDING
    ELSE IF Count(table, st, task, {STATUS_COMPLETED}) = Count(table, st, task, STATUS_CHOICES)
    THEN STATUS_IN_PROGRESS
    ELSE st[task]

\* a derivation that goes on to the tasks that depend on task
auto_update_cascade(task) ==
    /\ task \in tasks
    /\ status' = [u \in Tasks |->
                     IF u = task
                     THEN derive(rows, status, task)
                     ELSE IF Exists(rows, u, task)
                     THEN derive(rows, [status EXCEPT ![task] = derive(rows, status, task)], u)
                     ELSE status[u]]
    /\ last' = Response("auto_update", task, <<status>>, HTTP_200_OK, "", <<>>, FALSE, rows)
    /\ UNCHANGED <<tasks, rows, txn>>

\* `arg` of the response holds the status of every task before the call
auto_update_task_status(task) ==
    /\ task \in tasks
    /\ status' = [status EXCEPT ![task] = derive(rows, status, task)]
    /\ last' = Response("auto_update", task, <<status>>, HTTP_200_OK, "", <<>>, FALSE, rows)
    /\ UNCHANGED <<tasks, rows, txn>>

(***************************************************************************)
(* TaskViewSet.dependencies served by concurrent workers.  Every statement *)
(* of the request is a step.  The view takes no lock; the block            *)
(* `with transaction.atomic()` runs at the isolation level of the          *)
(* database, READ COMMITTED: a statement reads the committed rows and the  *)
(* rows its own transaction wrote, not the uncommitted rows of others.     *)
(***************************************************************************)
\* the uncommitted row of worker p
Pending(p) ==
    IF txn[p].pc \in {"staged", "searched"} /\ txn[p].created
    THEN Row(txn[p].pk, txn[p].depends_on_id)
    ELSE EmptyBag

\* the table as the statements of worker p read it
View(p) == rows (+) Pending(p)

\* lines 79-98: the checks before the atomic block
Begin(p, pk, depends_on_id) ==
    /\ txn[p].pc = "idle"
    /\ UNCHANGED <<tasks, status, rows, last>>
    /\ IF pk \notin tasks
       THEN txn' = [txn EXCEPT ![p] = [NoTxn EXCEPT !.pk = pk,
                                                   !.depends_on_id = depends_on_id,
                                                   !.code = HTTP_404_NOT_FOUND]]
       ELSE IF depends_on_id = None \/ is_self(depends_on_id, pk)
       THEN txn' = [txn EXCEPT ![p] = [NoTxn EXCEPT !.pk = pk,
                                                   !.depends_on_id = depends_on_id,
                                                   !.code = HTTP_400_BAD_REQUEST]]
       ELSE IF depends_on_id \notin tasks
       THEN txn' = [txn EXCEPT ![p] = [NoTxn EXCEPT !.pk = pk,
                                                   !.depends_on_id = depends_on_id,
                                                   !.code = HTTP_404_NOT_FOUND]]
       ELSE txn' = [txn EXCEPT ![p] = [NoTxn EXCEPT !.pc = "atomic",
                                                   !.pk = pk,
                                                   !.depends_on_id = depends_on_id]]

\* line 101: get_or_create.  The unique index makes the insert wait while
\* another transaction holds an uncommitted row for the same pair.
Stage(p) ==
    /\ txn[p].pc = "atomic"
    /\ \A q \in Procs \ {p} : ~Exists(Pending(q), txn[p].pk, txn[p].depends_on_id)
    /\ txn' = [txn EXCEPT ![p].pc = "staged",
                          ![p].created = ~Exists(rows, txn[p].pk, txn[p].depends_on_id)]
    /\ UNCHANGED <<tasks, status, rows, last>>

\* line 103: detect_cycle reads the table once, in _build_graph
Search(p) ==
    /\ txn[p].pc = "staged"
    /\ \E found \in {detect_cycle(graph, txn[p].pk) : graph \in _build_graph(View(p))} :
          txn' = [txn EXCEPT ![p].pc = "searched",
                             ![p].is_circular = found.is_circular,
                             ![p].path = found.path]
    /\ UNCHANGED <<tasks, status, rows, last>>

\* lines 104-117: roll the block back, or leave it and commit
Finish(p) ==
    /\ txn[p].pc = "searched"
    /\ IF txn[p].is_circular
       THEN /\ rows' = set_rollback(rows, View(p), txn[p].pk, txn[p].depends_on_id)
            /\ txn' = [txn EXCEPT ![p].pc = "idle", ![p].code = HTTP_400_BAD_REQUEST]
       ELSE /\ rows' = View(p)
            /\ txn' = [txn EXCEPT ![p].pc = "idle", ![p].code = HTTP_201_CREATED]
    /\ UNCHANGED <<tasks, status, last>>

(***************************************************************************)
(* Specifications                                                          *)
(***************************************************************************)
Init ==
    /\ tasks = Tasks
    /\ status = [t \in Tasks |-> STATUS_PENDING]
    /\ rows = EmptyBag
    /\ last = NoRequest
    /\ txn = [p \in Procs |-> NoTxn]

Fits(bound) == BagCardinality(rows') <= bound

\* propose_edge calls only, from an empty edge set
ProposeEdge == \E pk \in Ids, d \in Ids \cup {None} : Dependencies(pk, d)

NextPropose == ProposeEdge /\ Fits(MaxRows)

SpecPropose == Init /\ [][NextPropose]_vars

\* every edge-mutating operation the API exposes; a deleted task is the id
\* that no longer exists
Propose == \E pk \in Tasks, d \in Tasks \cup {None} : Dependencies(pk, d) /\ Fits(MaxStore)

Create == \E a \in Tasks, b \in Tasks : DependencyCreate(a, b) /\ Fits(MaxStore)

Update == \E e \in Edges(rows), a \in Tasks, b \in Tasks : DependencyUpdate(e[1], e[2], a, b)

Destroy == \E a \in Tasks, b \in Tasks : DependencyDestroy(a, b)

DeleteTask == \E t \in Tasks : TaskDestroy(t)

Next == Propose \/ Create \/ Update \/ Destroy \/ DeleteTask

Spec == Init /\ [][Next]_vars

\* derive_status on any store the endpoints can produce: the tasks carry any
\* status, the table any rows, self-loops and cycles included
Tables == {SetToBag(E) : E \in {F \in SUBSET (Tasks \X Tasks) : Cardinality(F) <= MaxStore}}

InitStatus ==
    /\ tasks = Tasks
    /\ status \in [Tasks -> STATUS_CHOICES]
    /\ rows \in Tables
    /\ last = NoRequest
    /\ txn = [p \in Procs |-> NoTxn]

DeriveStatus == \E t \in Tasks : auto_update_task_status(t)

NextStatus == DeriveStatus

SpecStatus == InitStatus /\ [][NextStatus]_vars

\* propose_edge calls on any store the endpoints can produce, the tasks
\* carrying any status
NextEdgeStatus == ProposeEdge /\ Fits(MaxRows)

SpecEdgeStatus == InitStatus /\ [][NextEdgeStatus]_vars

\* detect_cycle on any table, cycles and self-loops included, from any start
DetectTables == {SetToBag(E) : E \in {F \in SUBSET (Tasks \X Tasks) : Cardinality(F) <= MaxRows}}

InitDetect ==
    /\ tasks = Tasks
    /\ status = [t \in Tasks |-> STATUS_PENDING]
    /\ rows \in DetectTables
    /\ last = NoRequest
    /\ txn = [p \in Procs |-> NoTxn]

NextDetect == \E start \in Ids : DetectCycle(start)

SpecDetect == InitDetect /\ [][NextDetect]_vars

\* concurrent propose_edge requests, from an empty edge set
BeginRequest == \E p \in Procs, pk \in Ids, d \in Ids \cup {None} : Begin(p, pk, d)

StageEdge == \E p \in Procs : Stage(p)

SearchCycle == \E p \in Procs : Search(p)

FinishRequest == \E p \in Procs : Finish(p) /\ Fits(MaxStore)

NextConc == BeginRequest \/ StageEdge \/ SearchCycle \/ FinishRequest

SpecConc == Init /\ [][NextConc]_vars

(***************************************************************************)
(* Graph predicates used by the properties                                 *)
(***************************************************************************)
Succ(E, S) == {e[2] : e \in {d \in E : d[1] \in S}}

RECURSIVE Closure(_, _)
Closure(E, S) ==
    LET T == S \cup Succ(E, S) IN IF T = S THEN S ELSE Closure(E, T)

\* the tasks reached from a along one edge or more
Reachable(E, a) == Closure(E, Succ(E, {a}))

HasCycle(E) == \E e \in E : e[1] \in Reachable(E, e[1])

SelfLoops(E) == {e \in E : e[1] = e[2]}

CYCLE_ERROR == "Circular dependency detected"
SELF_ERROR == "Task cannot depend on itself"

\* the last request was propose_edge(a, b) on existing tasks a, b
Proposed == last.op = "dependencies" /\ last.pk \in tasks /\ last.arg[1] \in tasks

CycleRejected == Proposed /\ last.error = CYCLE_ERROR

Accepted == Proposed /\ last.code = HTTP_201_CREATED

(***************************************************************************)
(* Properties                                                              *)
(***************************************************************************)
\* C1 (SpecPropose): after every propose_edge call, accepted or rejected, the
\* committed edge set has no cycle.
C1_Acyclicity == ~HasCycle(Edges(rows))

\* a cycle-closing edge was proposed on a store of two edges or more
C1_Witness == CycleRejected /\ BagCardinality(rows) >= 2

\* C2 (Spec): a propose_edge(a, b) that returns the cycle error leaves the
\* committed table as it was before the call, also when the row (a, b) was
\* already stored.
C2_Atomicity == CycleRejected => rows = last.pre

\* rejected with the cycle error while (a, b) was already a stored row
C2_Witness == CycleRejected /\ Exists(last.pre, last.pk, last.arg[1]) /\ rows # EmptyBag

\* C3 (Spec): propose_edge(t, t) on an existing task t fails with the
\* self-dependency error, executes no insert and leaves the table unchanged.
C3_SelfDependency ==
    (last.op = "dependencies" /\ last.pk \in tasks /\ last.arg = <<last.pk>>)
        => /\ last.error = SELF_ERROR
           /\ last.code = HTTP_400_BAD_REQUEST
           /\ ~last.staged
           /\ rows = last.pre

\* propose_edge(t, t) was called on a non-empty store
C3_Witness ==
    /\ last.op = "dependencies" /\ last.pk \in tasks /\ last.arg = <<last.pk>>
    /\ rows # EmptyBag

\* C4 (Spec): the table never holds two rows for one ordered pair, and a
\* propose_edge repeated right after it succeeded succeeds again and leaves
\* the table as the first call left it.
C4_Unique == \A e \in BagToSet(rows) : CopiesIn(e, rows) = 1

C4_Repeat ==
    (/\ Accepted
     /\ last'.op = "dependencies" /\ last'.pk = last.pk /\ last'.arg = last.arg)
        => (last'.code = HTTP_201_CREATED /\ rows' = rows)

C4_Idempotent == [](C4_Unique) /\ [][C4_Repeat]_vars

\* a propose_edge succeeded on a pair that was already stored
C4_Witness == Accepted /\ ~last.staged /\ Exists(last.pre, last.pk, last.arg[1])

\* C6 (SpecPropose): the path of a cycle rejection of propose_edge(a, b) is a
\* closed loop through the proposed edge: it starts and ends at a, its second
\* element is b, consecutive elements are joined by an edge of the pre-call
\* edge set plus (a, b), and no task but a occurs twice.
C6_CycleWitness ==
    CycleRejected =>
        LET p == last.path
            a == last.pk
            b == last.arg[1]
            E == Edges(last.pre) \cup {<<a, b>>}
        IN /\ Len(p) >= 3
           /\ p[1] = a
           /\ p[Len(p)] = a
           /\ p[2] = b
           /\ \A i \in 1..Len(p) - 1 : <<p[i], p[i + 1]>> \in E
           /\ \A i \in 1..Len(p) - 1 : \A j \in 1..Len(p) - 1 : p[i] = p[j] => i = j

\* a loop of three tasks was reported
C6_Witness == CycleRejected /\ Len(last.path) = 4

\* C7 (SpecPropose): propose_edge(a, b) with a # b on existing tasks is
\* rejected with the cycle error exactly when a is reachable from b in the
\* pre-call edge set; otherwise it succeeds and the edge set becomes the
\* pre-call set plus (a, b).
C7_Criterion ==
    (Proposed /\ last.pk # last.arg[1]) =>
        LET a == last.pk
            b == last.arg[1]
            E == Edges(last.pre)
        IN IF a \in Reachable(E, b)
           THEN last.error = CYCLE_ERROR /\ rows = last.pre
           ELSE /\ last.code = HTTP_201_CREATED
                /\ last.error = ""
                /\ Edges(rows) = E \cup {<<a, b>>}
                /\ BagCardinality(rows) = Cardinality(E \cup {<<a, b>>})

\* an edge was accepted into a task that an earlier branch of the search had
\* already reached
C7_Witness ==
    /\ Accepted /\ last.staged
    /\ \E c \in tasks : /\ c # last.arg[1]
                        /\ <<last.pk, c>> \in Edges(rows)
                        /\ <<last.arg[1], c>> \in Edges(rows)

\* C9 (Spec): after any sequence of the edge-mutating operations the stored
\* edge set has no cycle and no self-loop.
C9_GlobalAcyclic == ~HasCycle(Edges(rows)) /\ SelfLoops(Edges(rows)) = {}

(***************************************************************************)
(* Properties of derive_status                                             *)
(***************************************************************************)
\* the last call was derive_status(last.pk); Before is the status of every
\* task when it was called
Derived == last.op = "auto_update"

Before == last.arg[1]

\* the statuses of the direct dependencies of t, as a bag
DepStatuses(table, st, t) ==
    LET mine == {e \in BagToSet(table) : e[1] = t}
    IN [s \in {st[e[2]] : e \in mine} |->
          Cardinality({e \in mine : st[e[2]] = s})]

\* the table of the specification, on a bag of dependency statuses
StatusTable(deps, prior) ==
    IF deps = EmptyBag THEN prior
    ELSE IF BagIn(STATUS_BLOCKED, deps) THEN STATUS_BLOCKED
    ELSE IF BagIn(STATUS_PENDING, deps) \/ BagIn(STATUS_IN_PROGRESS, deps) THEN STATUS_PENDING
    ELSE STATUS_IN_PROGRESS

C8_NeverCompleted ==
    Derived =>
        /\ Before[last.pk] # STATUS_COMPLETED => status[last.pk] # STATUS_COMPLETED
        /\ (\E e \in Edges(rows) : e[1] = last.pk)
              => status[last.pk] \in {STATUS_BLOCKED, STATUS_PENDING, STATUS_IN_PROGRESS}

\* derive_status ran on a task whose direct dependencies are all Completed
C8_Witness ==
    /\ Derived
    /\ \E e \in Edges(rows) : e[1] = last.pk
    /\ \A e \in Edges(rows) : e[1] = last.pk => Before[e[2]] = STATUS_COMPLETED

(***************************************************************************)
(* Properties of concurrent requests                                       *)
(***************************************************************************)
Quiescent == \A p \in Procs : txn[p].pc = "idle"

\* C10 (SpecConc): when concurrent propose_edge calls have all returned, the
\* committed edge set has no cycle.
C10_Isolation == Quiescent => ~HasCycle(Edges(rows))

\* C11 (SpecConc): while a propose_edge call is in progress, the committed
\* table, which is what every other reader reads, has no cycle.
C11_NoPartialState == ~Quiescent => ~HasCycle(Edges(rows))

(***************************************************************************)
(* Properties of task deletion                                             *)
(***************************************************************************)
\* C12 (Spec): both endpoints of every stored row are existing tasks, so
\* after a task is deleted no row names it as task or as depends_on.
C12_Integrity ==
    /\ \A e \in Edges(rows) : e[1] \in tasks /\ e[2] \in tasks
    /\ (last.op = "task_destroy" /\ last.code = HTTP_204_NO_CONTENT)
          => \A e \in Edges(rows) : e[1] # last.pk /\ e[2] # last.pk

\* a task was deleted together with rows of it, and other rows remain
C12_Witness ==
    /\ last.op = "task_destroy"
    /\ last.code = HTTP_204_NO_CONTENT
    /\ last.arg[1] >= 1
    /\ rows # EmptyBag

(***************************************************************************)
(* Properties of the status after an edge creation                         *)
(***************************************************************************)
\* C13 (SpecEdgeStatus): after a successful propose_edge(task, depends_on)
\* the status of task is the one the table gives for its direct dependencies.
C13_Recomputed ==
    Accepted =>
        status[last.pk] = StatusTable(DepStatuses(rows, status, last.pk), status[last.pk])

(***************************************************************************)
(* Properties of detect_cycle on arbitrary tables                          *)
(***************************************************************************)
\* the last call was detect_cycle(last.pk) on the table last.pre
Detected == last.op = "detect_cycle"

Reported == Detected /\ last.arg[1]

\* some cycle can be reached from start
CycleReachable(E, start) ==
    \E n \in {start} \cup Reachable(E, start) : n \in Reachable(E, n)

Joined(p, E) == \A i \in 1..Len(p) - 1 : <<p[i], p[i + 1]>> \in E

\* C14 (SpecDetect): detect_cycle(start) reports a cycle exactly when a cycle
\* is reachable from start, and returns the empty path when it reports none.
C14_Oracle ==
    Detected =>
        /\ last.arg[1] <=> CycleReachable(Edges(last.pre), last.pk)
        /\ ~last.arg[1] => last.path = <<>>

\* no cycle was reported from a start with dependencies although the table
\* holds a cycle
C14_Witness ==
    /\ Detected /\ ~last.arg[1]
    /\ HasCycle(Edges(rows))
    /\ \E e \in Edges(rows) : e[1] = last.pk

\* C15 as stated (SpecDetect): the reported path is the closed loop alone: its
\* first element equals its last and consecutive elements are joined by an
\* edge.
C15_ClosedLoop ==
    Reported =>
        /\ Len(last.path) >= 2
        /\ last.path[1] = last.path[Len(last.path)]
        /\ Joined(last.path, Edges(last.pre))

\* C15 amended (SpecDetect): the reported path is the path of the search from
\* start to the repeated node followed by the closed loop: it starts at start,
\* consecutive elements are joined by an edge, its last element occurs once
\* before and no other element occurs twice.
C15_Lasso ==
    Reported =>
        LET p == last.path
            n == Len(last.path)
        IN /\ n >= 2
           /\ p[1] = last.pk
           /\ Joined(p, Edges(last.pre))
           /\ \E k \in 1..n - 1 : p[k] = p[n]
           /\ \A i \in 1..n - 1 : \A j \in 1..n - 1 : p[i] = p[j] => i = j

\* a cycle that does not pass through start was reported
C15_Witness == Reported /\ last.path[1] # last.path[Len(last.path)]

(***************************************************************************)
(* Properties of the reported witness across calls                         *)
(***************************************************************************)
\* C16 (SpecPropose): a rejected propose_edge repeated on the unchanged table
\* reports the same path, whatever order the store enumerates the rows in.
C16_SamePath ==
    (/\ CycleRejected
     /\ last'.op = "dependencies" /\ last'.pk = last.pk /\ last'.arg = last.arg)
        => last'.path = last.path

C16_Deterministic == [][C16_SamePath]_vars

(***************************************************************************)
(* Frame and repetition of derive_status                                   *)
(***************************************************************************)
\* C17 (SpecStatus): derive_status(t) changes at most the status of t: the
\* table and the status of every other task are as before the call.
C17_Frame ==
    Derived =>
        /\ rows = last.pre
        /\ tasks = DOMAIN Before
        /\ \A u \in tasks \ {last.pk} : status[u] = Before[u]

\* the status of t changed while a task that depends on t keeps a status
\* the table no longer gives it
C17_Witness ==
    /\ Derived
    /\ status[last.pk] # Before[last.pk]
    /\ \E u \in tasks \ {last.pk} :
          /\ Exists(rows, u, last.pk)
          /\ status[u] # StatusTable(DepStatuses(rows, status, u), status[u])
          /\ Before[u] = StatusTable(DepStatuses(rows, Before, u), Before[u])

(***************************************************************************)
(* Cost of the cycle search                                                *)
(***************************************************************************)
\* C18 (SpecDetect): detect_cycle returns on every table, and its search
\* enters each task at most once: the calls of dfs are as many as the tasks
\* visited, which are start and endpoints of stored rows.
C18_EntersOnce ==
    Detected =>
        /\ last.arg[2] = Cardinality(last.arg[3])
        /\ last.arg[3] \subseteq
              {last.pk} \cup {e[1] : e \in Edges(last.pre)} \cup {e[2] : e \in Edges(last.pre)}
        /\ last.arg[2] <= 1 + 2 * BagCardinality(last.pre)

\* the search returned on a table with a self-loop after entering two tasks
\* or more
C18_Witness ==
    /\ Detected
    /\ SelfLoops(Edges(rows)) # {}
    /\ last.arg[2] >= 2

\* C19 (SpecStatus): derive_status(t) invoked again right after
\* derive_status(t) leaves the status of t as the first call left it.
C19_Again ==
    (Derived /\ last'.op = "auto_update" /\ last'.pk = last.pk)
        => status'[last.pk] = status[last.pk]

C19_Idempotent == [][C19_Again]_vars

====
